---------------------------- MODULE Spec2Model ----------------------------
(***************************************************************************)
(* Zero-of-Functions solver: the expression evaluator (parse_function and  *)
(* the func closure it returns) and the six root-finding methods of        *)
(* methods.py, driven the way app.py / ZOF_CLI.py drive them: parse the    *)
(* expression(s), call the selected method, obtain a MethodResult or an    *)
(* exception.                                                              *)
(*                                                                         *)
(* Python floats are modelled as a binary floating-point format of reduced  *)
(* size: MantissaBits significant bits, least exponent -MinExp (with        *)
(* gradual underflow below it) and greatest exponent MaxExp.  A finite      *)
(* value is the integer n standing for n * 2^-MinExp; every arithmetic      *)
(* operation rounds its exact result to the nearest representable value,    *)
(* ties to even; a result beyond MaxFloat is +inf/-inf; nan compares false  *)
(* with everything.                                                         *)
(***************************************************************************)
EXTENDS Integers, Sequences, FiniteSets, TLC

\* ------------------------------------------------------------------ bounds
MantissaBits == 5
MinExp == 8
MaxExp == 5
MaxIn == 8
MaxBracketIn == 20
MaxIter == 3

\* ------------------------------------------------------------ float format
RECURSIVE Pow2(_)
Pow2(k) == IF k = 0 THEN 1 ELSE 2 * Pow2(k - 1)

\* the integer that stands for 1.0
Scale == Pow2(MinExp)

\* the largest finite value
MaxFloat == Pow2(MaxExp + MinExp)

PInf == MaxFloat + 1
NInf == -PInf
NaN == MaxFloat + 2

IsFinite(v) == -MaxFloat <= v /\ v <= MaxFloat

IAbs(n) == IF n < 0 THEN -n ELSE n

\* nearest integer to n/d, ties to even (d # 0)
RoundDiv(n, d) ==
    LET an == IAbs(n)
        ad == IAbs(d)
        q == an \div ad
        r == an % ad
        m == IF 2 * r > ad \/ (2 * r = ad /\ q % 2 = 1) THEN q + 1 ELSE q
    IN IF (n < 0) # (d < 0) THEN -m ELSE m

RECURSIVE RoundTo(_, _)
\* the representable value nearest to n/d (d # 0): a mantissa of MantissaBits bits
RoundTo(n, d) ==
    IF IAbs(n) \div Pow2(MantissaBits) >= IAbs(d)
    THEN 2 * RoundTo(n, 2 * d)
    ELSE RoundDiv(n, d)

\* overflow to +inf/-inf
FRound(n) == IF n > MaxFloat THEN PInf ELSE IF n < -MaxFloat THEN NInf ELSE n

\* the float of a small integer literal
Lit(k) == k * Scale

FNeg(a) == IF a = NaN THEN NaN ELSE -a

FAdd(a, b) ==
    IF a = NaN \/ b = NaN THEN NaN
    ELSE IF a = PInf THEN (IF b = NInf THEN NaN ELSE PInf)
    ELSE IF a = NInf THEN (IF b = PInf THEN NaN ELSE NInf)
    ELSE IF b = PInf \/ b = NInf THEN b
    ELSE FRound(RoundTo(a + b, 1))

FSub(a, b) == FAdd(a, FNeg(b))

FMul(a, b) ==
    IF a = NaN \/ b = NaN THEN NaN
    ELSE IF ~IsFinite(a) \/ ~IsFinite(b)
         THEN (IF a = 0 \/ b = 0 THEN NaN
               ELSE IF (a < 0) # (b < 0) THEN NInf ELSE PInf)
    ELSE FRound(RoundTo(a * b, Scale))

\* a / b for b # 0 (Python raises ZeroDivisionError for b = 0: see the callers)
FDiv(a, b) ==
    IF a = NaN \/ b = NaN THEN NaN
    ELSE IF ~IsFinite(a)
         THEN (IF ~IsFinite(b) THEN NaN
               ELSE IF (a < 0) # (b < 0) THEN NInf ELSE PInf)
    ELSE IF ~IsFinite(b) THEN 0
    ELSE FRound(RoundTo(a * Scale, b))

FAbs(a) == IF a = NaN THEN NaN ELSE IAbs(a)

FLt(a, b) == a # NaN /\ b # NaN /\ a < b

FGe(a, b) == a # NaN /\ b # NaN /\ a >= b

FEq(a, b) == a # NaN /\ b # NaN /\ a = b

RECURSIVE ISqrtIn(_, _, _)
\* the largest r in lo..hi with r*r <= n
ISqrtIn(n, lo, hi) ==
    IF lo >= hi THEN lo
    ELSE LET mid == (lo + hi + 1) \div 2
         IN IF mid * mid <= n THEN ISqrtIn(n, mid, hi) ELSE ISqrtIn(n, lo, mid - 1)

RECURSIVE SqrtTo(_, _)
\* the representable value nearest to sqrt(s), as a mantissa times w
SqrtTo(s, w) ==
    LET m == ISqrtIn(s \div (w * w), 0, MaxFloat)
        lhs == (2 * m + 1) * (2 * m + 1) * w * w
    IN IF m >= Pow2(MantissaBits) THEN SqrtTo(s, 2 * w)
       ELSE IF lhs < 4 * s \/ (lhs = 4 * s /\ m % 2 = 1) THEN (m + 1) * w
       ELSE m * w

\* math.sqrt on a finite a >= 0
FSqrt(a) == SqrtTo(a * Scale, 1)

\* --------------------------------------------------------------- evaluator
NoExc == [type |-> "none", msg |-> "", at_x |-> <<>>, cause |-> ""]

Exc(type, msg, at_x, cause) ==
    [type |-> type, msg |-> msg, at_x |-> at_x, cause |-> cause]

Ok(v) == [ok |-> TRUE, val |-> v, exc |-> NoExc]

Fail(e) == [ok |-> FALSE, val |-> 0, exc |-> e]

\* expression.strip()
Strip(expression) ==
    CASE expression = " x " -> "x"
      [] OTHER -> expression

\* compile(expression, "<user_function>", "eval") raises SyntaxError
SyntaxErrors == {"x + "}

\* parse_function up to the definition of func: the compiled code, or the error
parse_function(expression) ==
    LET stripped == Strip(expression)
    IN IF stripped = ""
       THEN [ok |-> FALSE, code |-> "",
             exc |-> Exc("FunctionParserError", "Expression cannot be empty.", <<>>, "")]
       ELSE IF stripped \in SyntaxErrors
       THEN [ok |-> FALSE, code |-> "",
             exc |-> Exc("FunctionParserError", "Invalid expression", <<>>, "SyntaxError")]
       ELSE [ok |-> TRUE, code |-> stripped, exc |-> NoExc]

PyVal(tag, val) == [tag |-> tag, val |-> val, cause |-> ""]

PyRaise(cause) == [tag |-> "exc", val |-> 0, cause |-> cause]

\* eval(compiled, {"__builtins__": {}}, {**allowed_names, "x": x})
EvalExpr(code, x) ==
    CASE code = "x" -> PyVal("float", x)
      [] code = "x**2 - 2" ->
            LET p == FMul(x, x)
            IN IF IsFinite(x) /\ ~IsFinite(p) THEN PyRaise("OverflowError")
               ELSE PyVal("float", FSub(p, Lit(2)))
      [] code = "2*x - 1" -> PyVal("float", FSub(FMul(Lit(2), x), Lit(1)))
      [] code = "1/x" ->
            IF x = 0 THEN PyRaise("ZeroDivisionError")
            ELSE PyVal("float", FDiv(Lit(1), x))
      [] code = "sqrt(x)" ->
            IF x = NaN \/ x = PInf THEN PyVal("float", x)
            ELSE IF x < 0 THEN PyRaise("ValueError")
            ELSE PyVal("float", FSqrt(x))
      [] code = "x/2 + 1" -> PyVal("float", FAdd(FDiv(x, Lit(2)), Lit(1)))
      [] code = "2*x" -> PyVal("float", FMul(Lit(2), x))
      [] code = "2" -> PyVal("int", 2)
      [] code = "nan" -> PyVal("float", NaN)
      [] code = "y" -> PyRaise("NameError")
      [] code = "(-1)**0.5" -> PyVal("complex", 0)
      [] code = "sin" -> PyVal("callable", 0)
      [] code = "10**400" -> PyVal("bigint", 0)
      [] code = "'a'" -> PyVal("str", 0)

\* float(value)
PyFloat(value) ==
    CASE value.tag = "float" -> Ok(value.val)
      [] value.tag = "int" -> Ok(Lit(value.val))
      [] value.tag = "bigint" ->
            Fail(Exc("OverflowError", "int too large to convert to float", <<>>, ""))
      [] value.tag = "str" ->
            Fail(Exc("ValueError", "could not convert string to float", <<>>, ""))
      [] OTHER ->
            Fail(Exc("TypeError", "float() argument must be a string or a real number", <<>>, ""))

\* func, once eval has produced value (or raised)
func_value(x, value) ==
    IF value.tag = "exc"
    THEN Fail(Exc("FunctionParserError", "Error evaluating expression at x=", <<x>>, value.cause))
    ELSE IF value.tag = "complex"
    THEN Fail(Exc("FunctionParserError",
                  "Expression evaluated to a complex number; real value expected.", <<>>, ""))
    ELSE PyFloat(value)

\* the closure func(x) returned by parse_function(code)
func(code, x) == func_value(x, EvalExpr(code, x))

\* ------------------------------------------------------------ result types
MethodResult(iterations_, root, error, iterations_used) ==
    [iterations |-> iterations_, root |-> root, error |-> error,
     iterations_used |-> iterations_used]

NoResult == MethodResult(<<>>, 0, 0, 0)

\* a faulty variant of _build_iteration that numbers the records from 0
build_iteration_from_zero(iteration_, xn, fxn, error) ==
    [iteration |-> iteration_ - 1, xn |-> xn, fxn |-> fxn, error |-> error]

build_iteration(iteration_, xn, fxn, error) ==
    [iteration |-> iteration_, xn |-> xn, fxn |-> fxn, error |-> error]

\* one step of a method: how control leaves it, the locals, the record appended
\* (if any), the calls of func it made, and the result returned or error raised
Continue(l, rec, cs) ==
    [ctl |-> "continue", loc |-> l, recs |-> <<rec>>, calls |-> cs,
     result |-> NoResult, exc |-> NoExc]

Return(l, recs, cs, res) ==
    [ctl |-> "return", loc |-> l, recs |-> recs, calls |-> cs,
     result |-> res, exc |-> NoExc]

Raise(l, recs, cs, e) ==
    [ctl |-> "raise", loc |-> l, recs |-> recs, calls |-> cs,
     result |-> NoResult, exc |-> e]

ValueError(msg) == Exc("ValueError", msg, <<>>, "")

ZeroDivisionError == Exc("ZeroDivisionError", "float division by zero", <<>>, "")

\* ------------------------------------------------------- shared conditions
\* fa * fb >= 0
InvalidBracket(fa, fb) == FGe(FMul(fa, fb), 0)

\* a faulty variant of the zero test that never fires
IsZero_never(d) == FALSE

\* denominator == 0, derivative_val == 0
IsZero(d) == FEq(d, 0)

\* faulty variants of the stopping predicate: with <= for <, and without the
\* residual test
Converged_inclusive(error, fx, tol) == FGe(tol, error) \/ FGe(tol, FAbs(fx))

Converged_error_only(error, fx, tol) == FLt(error, tol)

\* error < tol or abs(f(x_n)) < tol
Converged(error, fx, tol) == FLt(error, tol) \/ FLt(FAbs(fx), tol)

\* fixed_point: error < tol
FixedPointConverged(error, tol) == FLt(error, tol)

\* a local that is not bound yet (max_iter >= 1 binds it before it is read)
Unbound == 0

Entered(l, cs) ==
    [ctl |-> "continue", loc |-> l, recs |-> <<>>, calls |-> cs,
     result |-> NoResult, exc |-> NoExc]

\* append the record of iteration it, then return if stop holds, else go on with ln
Record(lr, ln, its, it, x, fx, error, stop, cs) ==
    IF stop
    THEN Return(lr, <<build_iteration(it, x, fx, error)>>, cs,
                MethodResult(Append(its, build_iteration(it, x, fx, error)), x, error, it))
    ELSE Continue(ln, build_iteration(it, x, fx, error), cs)

\* --------------------------------------------------------------- bisection
bracket_check(l, ra, rb, msg) ==
    IF ~ra.ok THEN Raise(l, <<>>, << <<l.func, l.a>> >>, ra.exc)
    ELSE IF ~rb.ok THEN Raise(l, <<>>, << <<l.func, l.a>>, <<l.func, l.b>> >>, rb.exc)
    ELSE IF InvalidBracket(ra.val, rb.val)
    THEN Raise([l EXCEPT !.fa = ra.val, !.fb = rb.val], <<>>,
               << <<l.func, l.a>>, <<l.func, l.b>> >>, ValueError(msg))
    ELSE Entered([l EXCEPT !.fa = ra.val, !.fb = rb.val],
                 << <<l.func, l.a>>, <<l.func, l.b>> >>)

bisection_enter(fn, a, b, tol, max_iter) ==
    bracket_check([func |-> fn, a |-> a, b |-> b, tol |-> tol, max_iter |-> max_iter,
                   fa |-> Unbound, fb |-> Unbound, c |-> Unbound, fc |-> Unbound,
                   error |-> Unbound],
                  func(fn, a), func(fn, b),
                  "Bisection requires f(a) and f(b) to have opposite signs.")

\* if fa * fc < 0: b = c, fb = fc; else: a = c, fa = fc
Replace(l, c, fc, error) ==
    IF FLt(FMul(l.fa, fc), 0)
    THEN [l EXCEPT !.b = c, !.fb = fc, !.c = c, !.fc = fc, !.error = error]
    ELSE [l EXCEPT !.a = c, !.fa = fc, !.c = c, !.fc = fc, !.error = error]

bracket_step(l, its, it, c, rc, error) ==
    IF ~rc.ok THEN Raise([l EXCEPT !.c = c], <<>>, << <<l.func, c>> >>, rc.exc)
    ELSE Record([l EXCEPT !.c = c, !.fc = rc.val, !.error = error],
                Replace(l, c, rc.val, error),
                its, it, c, rc.val, error, Converged(error, rc.val, l.tol),
                << <<l.func, c>> >>)

bisection_at(l, its, it, c) ==
    bracket_step(l, its, it, c, func(l.func, c), FDiv(FAbs(FSub(l.b, l.a)), Lit(2)))

bisection_iter(l, its, it) == bisection_at(l, its, it, FDiv(FAdd(l.a, l.b), Lit(2)))

bisection_exhausted(l, its) == MethodResult(its, l.c, l.error, l.max_iter)

\* ------------------------------------------------------------ regula falsi
regula_falsi_enter(fn, a, b, tol, max_iter) ==
    bracket_check([func |-> fn, a |-> a, b |-> b, tol |-> tol, max_iter |-> max_iter,
                   fa |-> Unbound, fb |-> Unbound, c |-> a, fc |-> Unbound,
                   error |-> Unbound],
                  func(fn, a), func(fn, b),
                  "Regula Falsi requires f(a) and f(b) to have opposite signs.")

regula_falsi_eval(l, its, it, c, rc) ==
    bracket_step(l, its, it, c, rc, IF rc.ok THEN FAbs(rc.val) ELSE Unbound)

regula_falsi_at(l, its, it, c) == regula_falsi_eval(l, its, it, c, func(l.func, c))

regula_falsi_div(l, its, it, num, den) ==
    IF den = 0 THEN Raise(l, <<>>, <<>>, ZeroDivisionError)
    ELSE regula_falsi_at(l, its, it, FDiv(num, den))

regula_falsi_iter(l, its, it) ==
    regula_falsi_div(l, its, it, FSub(FMul(l.a, l.fb), FMul(l.b, l.fa)), FSub(l.fb, l.fa))

regula_falsi_exhausted(l, its) == MethodResult(its, l.c, l.error, l.max_iter)

\* --------------------------------------- the step shared by the open methods
\* the calls of func in "append(... func(next_x) ...)" and, unless error < tol
\* short-circuits it, in the stopping test
NextCalls(cs, fn, next_x, error, tol) ==
    IF FLt(error, tol) THEN Append(cs, <<fn, next_x>>)
    ELSE cs \o << <<fn, next_x>>, <<fn, next_x>> >>

\* error = abs(next_x - x); append; test; x = next_x
open_record(l, ln, its, it, next_x, rn, error, cs) ==
    IF ~rn.ok THEN Raise(l, <<>>, Append(cs, <<l.func, next_x>>), rn.exc)
    ELSE Record([l EXCEPT !.error = error], [ln EXCEPT !.error = error],
                its, it, next_x, rn.val, error, Converged(error, rn.val, l.tol),
                NextCalls(cs, l.func, next_x, error, l.tol))

\* ------------------------------------------------------------------ secant
secant_enter(fn, x0, x1, tol, max_iter) ==
    Entered([func |-> fn, tol |-> tol, max_iter |-> max_iter, prev |-> x0, curr |-> x1,
             error |-> Unbound], <<>>)

secant_next(l, its, it, next_x, cs) ==
    open_record(l, [l EXCEPT !.prev = l.curr, !.curr = next_x], its, it, next_x,
                func(l.func, next_x), FAbs(FSub(next_x, l.curr)), cs)

secant_div(l, its, it, f_curr, denominator, cs) ==
    IF IsZero(denominator)
    THEN Raise(l, <<>>, cs,
               ValueError("Secant method encountered zero denominator; choose different initial guesses."))
    ELSE IF denominator = 0 THEN Raise(l, <<>>, cs, ZeroDivisionError)
    ELSE secant_next(l, its, it,
                     FSub(l.curr, FDiv(FMul(f_curr, FSub(l.curr, l.prev)), denominator)), cs)

secant_eval(l, its, it, rp, rq) ==
    IF ~rp.ok THEN Raise(l, <<>>, << <<l.func, l.prev>> >>, rp.exc)
    ELSE IF ~rq.ok THEN Raise(l, <<>>, << <<l.func, l.prev>>, <<l.func, l.curr>> >>, rq.exc)
    ELSE secant_div(l, its, it, rq.val, FSub(rq.val, rp.val),
                    << <<l.func, l.prev>>, <<l.func, l.curr>> >>)

secant_iter(l, its, it) ==
    secant_eval(l, its, it, func(l.func, l.prev), func(l.func, l.curr))

\* a faulty variant of the final return that hands back prev instead of curr
secant_exhausted_prev(l, its) == MethodResult(its, l.prev, l.error, l.max_iter)

secant_exhausted(l, its) == MethodResult(its, l.curr, l.error, l.max_iter)

\* ---------------------------------------------------------- newton_raphson
newton_raphson_enter(fn, dfn, x0, tol, max_iter) ==
    Entered([func |-> fn, derivative |-> dfn, tol |-> tol, max_iter |-> max_iter,
             current |-> x0, error |-> Unbound], <<>>)

newton_raphson_next(l, its, it, next_x, cs) ==
    open_record(l, [l EXCEPT !.current = next_x], its, it, next_x,
                func(l.func, next_x), FAbs(FSub(next_x, l.current)), cs)

newton_raphson_div(l, its, it, f_val, derivative_val, cs) ==
    IF IsZero(derivative_val)
    THEN Raise(l, <<>>, cs, ValueError("Derivative is zero; Newton-Raphson cannot proceed."))
    ELSE IF derivative_val = 0 THEN Raise(l, <<>>, cs, ZeroDivisionError)
    ELSE newton_raphson_next(l, its, it, FSub(l.current, FDiv(f_val, derivative_val)), cs)

newton_raphson_eval(l, its, it, rf, rd) ==
    IF ~rf.ok THEN Raise(l, <<>>, << <<l.func, l.current>> >>, rf.exc)
    ELSE IF ~rd.ok
    THEN Raise(l, <<>>, << <<l.func, l.current>>, <<l.derivative, l.current>> >>, rd.exc)
    ELSE newton_raphson_div(l, its, it, rf.val, rd.val,
                            << <<l.func, l.current>>, <<l.derivative, l.current>> >>)

newton_raphson_iter(l, its, it) ==
    newton_raphson_eval(l, its, it, func(l.func, l.current), func(l.derivative, l.current))

newton_raphson_exhausted(l, its) == MethodResult(its, l.current, l.error, l.max_iter)

\* ------------------------------------------------------------- fixed_point
fixed_point_enter(g_func, x0, tol, max_iter) ==
    Entered([func |-> g_func, tol |-> tol, max_iter |-> max_iter, current |-> x0,
             error |-> Unbound], <<>>)

fixed_point_record(l, its, it, next_x, error, f_val) ==
    Record([l EXCEPT !.error = error], [l EXCEPT !.current = next_x, !.error = error],
           its, it, next_x, f_val, error, FixedPointConverged(error, l.tol),
           << <<l.func, l.current>> >>)

fixed_point_eval(l, its, it, rg) ==
    IF ~rg.ok THEN Raise(l, <<>>, << <<l.func, l.current>> >>, rg.exc)
    ELSE fixed_point_record(l, its, it, rg.val, FAbs(FSub(rg.val, l.current)),
                            FSub(rg.val, l.current))

fixed_point_iter(l, its, it) == fixed_point_eval(l, its, it, func(l.func, l.current))

fixed_point_exhausted(l, its) == MethodResult(its, l.current, l.error, l.max_iter)

\* --------------------------------------------------------- modified_secant
\* a faulty variant of the perturbation: absolute (delta) instead of relative
Perturbation_absolute(delta, current) == delta

\* delta * current
Perturbation(delta, current) == FMul(delta, current)

modified_secant_enter(fn, x0, delta, tol, max_iter) ==
    IF IsZero(delta)
    THEN Raise([func |-> fn, delta |-> delta, tol |-> tol, max_iter |-> max_iter,
                current |-> x0, error |-> Unbound], <<>>, <<>>,
               ValueError("Delta must be non-zero for the modified secant method."))
    ELSE Entered([func |-> fn, delta |-> delta, tol |-> tol, max_iter |-> max_iter,
                  current |-> x0, error |-> Unbound], <<>>)

modified_secant_next(l, its, it, next_x, cs) ==
    open_record(l, [l EXCEPT !.current = next_x], its, it, next_x,
                func(l.func, next_x), FAbs(FSub(next_x, l.current)), cs)

modified_secant_div(l, its, it, f_current, denominator, cs) ==
    IF IsZero(denominator)
    THEN Raise(l, <<>>, cs,
               ValueError("Modified secant encountered zero denominator; adjust delta or initial guess."))
    ELSE IF denominator = 0 THEN Raise(l, <<>>, cs, ZeroDivisionError)
    ELSE modified_secant_next(l, its, it,
             FSub(l.current,
                  FDiv(FMul(Perturbation(l.delta, l.current), f_current), denominator)), cs)

modified_secant_eval(l, its, it, xp, rf, rp) ==
    IF ~rf.ok THEN Raise(l, <<>>, << <<l.func, l.current>> >>, rf.exc)
    ELSE IF ~rp.ok THEN Raise(l, <<>>, << <<l.func, l.current>>, <<l.func, xp>> >>, rp.exc)
    ELSE modified_secant_div(l, its, it, rf.val, FSub(rp.val, rf.val),
                             << <<l.func, l.current>>, <<l.func, xp>> >>)

modified_secant_at(l, its, it, xp) ==
    modified_secant_eval(l, its, it, xp, func(l.func, l.current), func(l.func, xp))

modified_secant_iter(l, its, it) ==
    modified_secant_at(l, its, it, FAdd(l.current, Perturbation(l.delta, l.current)))

modified_secant_exhausted(l, its) == MethodResult(its, l.current, l.error, l.max_iter)

\* ----------------------------------------------------------- state machine
VARIABLES
    pc,          \* "parse", "call", "loop", "done": where the request stands
    method,      \* the method selected (method_key)
    args,        \* the raw inputs of the request
    funcs,       \* the parsed functions: func (f or g) and derivative
    loc,         \* the locals of the running method
    iteration,   \* the loop variable
    iterations,  \* the list of iteration records built so far
    outcome,     \* what the call produced: nothing yet, a MethodResult, an exception
    calls        \* every call of a parsed function so far: <<code, x>>, in order

vars == <<pc, method, args, funcs, loc, iteration, iterations, outcome, calls>>

Methods == {"bisection", "regula_falsi", "secant", "newton_raphson", "fixed_point",
            "modified_secant"}

\* the expression strings a user may type
Equations == {"x", "x**2 - 2", "2*x - 1", "1/x", "sqrt(x)", "x/2 + 1", "nan", "y",
              "(-1)**0.5", "sin", "10**400", "'a'", "", " x ", "x + "}

Derivatives == {"2*x", "2", "x", ""}

\* the numbers a user may type: multiples of 1/8
Eighth == Scale \div 8

Floats(n) == {k * Eighth : k \in -n .. n}

Tolerances == {0, Eighth, Scale}

MaxIterations == 1 .. MaxIter

ArgSets(m, F) ==
    CASE m \in {"bisection", "regula_falsi"} ->
            [equation : Equations, lower : F, upper : F,
             tolerance : Tolerances, max_iterations : MaxIterations]
      [] m = "secant" ->
            [equation : Equations, x0 : F, x1 : F,
             tolerance : Tolerances, max_iterations : MaxIterations]
      [] m = "newton_raphson" ->
            [equation : Equations, derivative : Derivatives, x0 : F,
             tolerance : Tolerances, max_iterations : MaxIterations]
      [] m = "fixed_point" ->
            [equation : Equations, x0 : F,
             tolerance : Tolerances, max_iterations : MaxIterations]
      [] m = "modified_secant" ->
            [equation : Equations, x0 : F, delta : F,
             tolerance : Tolerances, max_iterations : MaxIterations]

NoOutcome == [kind |-> "none", result |-> NoResult, exc |-> NoExc]

Returned(res) == [kind |-> "return", result |-> res, exc |-> NoExc]

Raised(e) == [kind |-> "raise", result |-> NoResult, exc |-> e]

\* a request for one of the methods ms with numbers from F, before the call
Request(ms, F) ==
    /\ pc = "parse"
    /\ method \in ms
    /\ args \in ArgSets(method, F)
    /\ funcs = [func |-> "", derivative |-> ""]
    /\ loc = [max_iter |-> 0]
    /\ iteration = 0
    /\ iterations = <<>>
    /\ outcome = NoOutcome
    /\ calls = <<>>

Init == Request(Methods, Floats(MaxIn))

\* the caller parses the expression(s) before it calls the method
Parse ==
    /\ pc = "parse"
    /\ LET pf == parse_function(args.equation)
           pd == IF method = "newton_raphson" /\ pf.ok
                 THEN parse_function(args.derivative)
                 ELSE [ok |-> TRUE, code |-> "", exc |-> NoExc]
       IN IF ~pf.ok
          THEN /\ outcome' = Raised(pf.exc)
               /\ pc' = "done"
               /\ funcs' = funcs
          ELSE IF ~pd.ok
          THEN /\ outcome' = Raised(pd.exc)
               /\ pc' = "done"
               /\ funcs' = funcs
          ELSE /\ funcs' = [func |-> pf.code, derivative |-> pd.code]
               /\ pc' = "call"
               /\ outcome' = outcome
    /\ UNCHANGED <<method, args, loc, iteration, iterations, calls>>

\* the effect of one step of a method on the state
Apply(s) ==
    /\ loc' = s.loc
    /\ iterations' = iterations \o s.recs
    /\ calls' = calls \o s.calls
    /\ pc' = IF s.ctl = "continue" THEN "loop" ELSE "done"
    /\ outcome' = CASE s.ctl = "continue" -> outcome
                    [] s.ctl = "return" -> Returned(s.result)
                    [] s.ctl = "raise" -> Raised(s.exc)

Enter(m) ==
    /\ pc = "call"
    /\ method = m
    /\ UNCHANGED <<method, args, funcs, iteration>>

Loop(m) ==
    /\ pc = "loop"
    /\ method = m
    /\ iteration < loc.max_iter
    /\ iteration' = iteration + 1
    /\ UNCHANGED <<method, args, funcs>>

Exhausted(m) ==
    /\ pc = "loop"
    /\ method = m
    /\ iteration = loc.max_iter
    /\ pc' = "done"
    /\ UNCHANGED <<method, args, funcs, loc, iteration, iterations, calls>>

bisection_call ==
    /\ Enter("bisection")
    /\ Apply(bisection_enter(funcs.func, args.lower, args.upper, args.tolerance,
                             args.max_iterations))

bisection_loop ==
    /\ Loop("bisection")
    /\ Apply(bisection_iter(loc, iterations, iteration + 1))

bisection_end ==
    /\ Exhausted("bisection")
    /\ outcome' = Returned(bisection_exhausted(loc, iterations))

regula_falsi_call ==
    /\ Enter("regula_falsi")
    /\ Apply(regula_falsi_enter(funcs.func, args.lower, args.upper, args.tolerance,
                                args.max_iterations))

regula_falsi_loop ==
    /\ Loop("regula_falsi")
    /\ Apply(regula_falsi_iter(loc, iterations, iteration + 1))

regula_falsi_end ==
    /\ Exhausted("regula_falsi")
    /\ outcome' = Returned(regula_falsi_exhausted(loc, iterations))

secant_call ==
    /\ Enter("secant")
    /\ Apply(secant_enter(funcs.func, args.x0, args.x1, args.tolerance, args.max_iterations))

secant_loop ==
    /\ Loop("secant")
    /\ Apply(secant_iter(loc, iterations, iteration + 1))

secant_end ==
    /\ Exhausted("secant")
    /\ outcome' = Returned(secant_exhausted(loc, iterations))

newton_raphson_call ==
    /\ Enter("newton_raphson")
    /\ Apply(newton_raphson_enter(funcs.func, funcs.derivative, args.x0, args.tolerance,
                                  args.max_iterations))

newton_raphson_loop ==
    /\ Loop("newton_raphson")
    /\ Apply(newton_raphson_iter(loc, iterations, iteration + 1))

newton_raphson_end ==
    /\ Exhausted("newton_raphson")
    /\ outcome' = Returned(newton_raphson_exhausted(loc, iterations))

fixed_point_call ==
    /\ Enter("fixed_point")
    /\ Apply(fixed_point_enter(funcs.func, args.x0, args.tolerance, args.max_iterations))

fixed_point_loop ==
    /\ Loop("fixed_point")
    /\ Apply(fixed_point_iter(loc, iterations, iteration + 1))

fixed_point_end ==
    /\ Exhausted("fixed_point")
    /\ outcome' = Returned(fixed_point_exhausted(loc, iterations))

modified_secant_call ==
    /\ Enter("modified_secant")
    /\ Apply(modified_secant_enter(funcs.func, args.x0, args.delta, args.tolerance,
                                   args.max_iterations))

modified_secant_loop ==
    /\ Loop("modified_secant")
    /\ Apply(modified_secant_iter(loc, iterations, iteration + 1))

modified_secant_end ==
    /\ Exhausted("modified_secant")
    /\ outcome' = Returned(modified_secant_exhausted(loc, iterations))

Next ==
    \/ Parse
    \/ bisection_call \/ bisection_loop \/ bisection_end
    \/ regula_falsi_call \/ regula_falsi_loop \/ regula_falsi_end
    \/ secant_call \/ secant_loop \/ secant_end
    \/ newton_raphson_call \/ newton_raphson_loop \/ newton_raphson_end
    \/ fixed_point_call \/ fixed_point_loop \/ fixed_point_end
    \/ modified_secant_call \/ modified_secant_loop \/ modified_secant_end

Spec == Init /\ [][Next]_vars

\* the two bracketing methods alone, over a wider range of endpoints
BracketInit == Request({"bisection", "regula_falsi"}, Floats(MaxBracketIn))

BracketNext ==
    \/ Parse
    \/ bisection_call \/ bisection_loop \/ bisection_end
    \/ regula_falsi_call \/ regula_falsi_loop \/ regula_falsi_end

BracketSpec == BracketInit /\ [][BracketNext]_vars

\* ------------------------------------------------------------------ claims
BracketMethods == {"bisection", "regula_falsi"}

DenominatorMethods == {"secant", "newton_raphson", "modified_secant"}

Last(seq) == seq[Len(seq)]

\* the stopping predicate of method m, read off an iteration record
StopAt(m, rec, tol) ==
    IF m = "fixed_point" THEN FLt(rec.error, tol)
    ELSE FLt(rec.error, tol) \/ FLt(FAbs(rec.fxn), tol)

\* the request reached the method with endpoints where f(a) * f(b) < 0
ValidBracket ==
    /\ method \in BracketMethods
    /\ funcs.func # ""
    /\ func(funcs.func, args.lower).ok
    /\ func(funcs.func, args.upper).ok
    /\ FLt(FMul(func(funcs.func, args.lower).val, func(funcs.func, args.upper).val), 0)

FMin(a, b) == IF a < b THEN a ELSE b

FMax(a, b) == IF a < b THEN b ELSE a

\* C1: every returned MethodResult has len(iterations) == iterations_used, its
\* records carry the indices 1, 2, ..., iterations_used in order, and the last
\* record's index is iterations_used.
C1_IterationsUsed ==
    outcome.kind = "return" =>
        LET r == outcome.result
        IN /\ r.iterations_used >= 1
           /\ Len(r.iterations) = r.iterations_used
           /\ \A i \in 1 .. Len(r.iterations) : r.iterations[i].iteration = i
           /\ Last(r.iterations).iteration = r.iterations_used

C1_Witness ==
    /\ outcome.kind = "return"
    /\ method = "secant"
    /\ outcome.result.iterations_used = MaxIter
    /\ Len(outcome.result.iterations) = MaxIter

\* C2 (as stated): bisection and regula_falsi on a valid bracket return a
\* MethodResult whose final state satisfies error < tol or |f(root)| < tol.
C2_AlwaysConverged ==
    (ValidBracket /\ outcome.kind = "return") =>
        LET r == outcome.result
        IN FLt(r.error, args.tolerance) \/ FLt(FAbs(Last(r.iterations).fxn), args.tolerance)

\* C2 (amended): bisection and regula_falsi on a valid bracket never run more
\* than max_iter iterations, and a MethodResult they return either satisfies
\* error < tol or |f(root)| < tol, or has iterations_used == max_iter.
C2_ConvergedOrExhausted ==
    ValidBracket =>
        /\ iteration <= args.max_iterations
        /\ outcome.kind = "return" =>
              LET r == outcome.result
              IN \/ FLt(r.error, args.tolerance)
                 \/ FLt(FAbs(Last(r.iterations).fxn), args.tolerance)
                 \/ r.iterations_used = args.max_iterations

C2_Witness ==
    /\ ValidBracket
    /\ method = "regula_falsi"
    /\ outcome.kind = "return"
    /\ outcome.result.iterations_used >= 2
    /\ outcome.result.iterations_used < args.max_iterations
    /\ FLt(outcome.result.error, args.tolerance)

\* C3: on a valid bracket the xn of every iteration record of bisection and
\* regula_falsi, and the root returned, lie within [min(a,b), max(a,b)] of the
\* original endpoints.
C3_WithinBracket ==
    ValidBracket =>
        /\ \A i \in 1 .. Len(iterations) :
              /\ FGe(iterations[i].xn, FMin(args.lower, args.upper))
              /\ FGe(FMax(args.lower, args.upper), iterations[i].xn)
        /\ outcome.kind = "return" =>
              /\ FGe(outcome.result.root, FMin(args.lower, args.upper))
              /\ FGe(FMax(args.lower, args.upper), outcome.result.root)

\* C4: in each of the six methods, when the loop has run max_iter iterations
\* and none satisfied the stopping predicate, the call raises nothing and
\* returns a MethodResult with iterations_used == max_iter, root ==
\* iterations[-1].xn and error == iterations[-1].error.
C4_Exhaustion ==
    [][(pc = "loop" /\ iteration = loc.max_iter) =>
          (/\ outcome'.kind = "return"
           /\ outcome'.result.iterations = iterations
           /\ outcome'.result.iterations_used = args.max_iterations
           /\ outcome'.result.root = Last(iterations).xn
           /\ outcome'.result.error = Last(iterations).error)]_vars

C4_Witness ==
    /\ outcome.kind = "return"
    /\ outcome.result.iterations_used = args.max_iterations
    /\ Len(outcome.result.iterations) >= 2
    /\ ~StopAt(method, Last(outcome.result.iterations), args.tolerance)
    /\ outcome.result.root = Last(outcome.result.iterations).xn

BracketMessage(m) ==
    IF m = "bisection"
    THEN "Bisection requires f(a) and f(b) to have opposite signs."
    ELSE "Regula Falsi requires f(a) and f(b) to have opposite signs."

\* C5: when the endpoints given to bisection or regula_falsi do not satisfy
\* f(a) * f(b) < 0, the call raises the bracket ValueError before any
\* iteration: f has been evaluated at a and at b only, no record exists and no
\* MethodResult is returned.
C5_BracketRejected ==
    (method \in BracketMethods /\ pc \in {"loop", "done"} /\ funcs.func # "") =>
        ((/\ func(funcs.func, args.lower).ok
          /\ func(funcs.func, args.upper).ok
          /\ ~FLt(FMul(func(funcs.func, args.lower).val,
                       func(funcs.func, args.upper).val), 0))
         => /\ pc = "done"
            /\ outcome = Raised(ValueError(BracketMessage(method)))
            /\ iteration = 0
            /\ iterations = <<>>
            /\ calls = << <<funcs.func, args.lower>>, <<funcs.func, args.upper>> >>)

\* C6: every call func(x) that does not return a real number fails with a
\* FunctionParserError that carries x, whatever the cause; no error of another
\* type escapes from func.
C6_OnlyFunctionParserError ==
    (/\ outcome.kind = "raise"
     /\ calls # <<>>
     /\ ~func(Last(calls)[1], Last(calls)[2]).ok)
    => /\ outcome.exc.type = "FunctionParserError"
       /\ outcome.exc.at_x = << Last(calls)[2] >>

ZeroMessage(m) ==
    CASE m = "secant" ->
            "Secant method encountered zero denominator; choose different initial guesses."
      [] m = "newton_raphson" -> "Derivative is zero; Newton-Raphson cannot proceed."
      [] m = "modified_secant" ->
            "Modified secant encountered zero denominator; adjust delta or initial guess."

\* the function values an iteration of method m divides by the difference of
\* (secant, modified_secant) or divides by (newton_raphson), from the locals l
DenominatorCalls(m, l) ==
    CASE m = "secant" -> <<func(l.func, l.prev), func(l.func, l.curr)>>
      [] m = "newton_raphson" -> <<func(l.func, l.current), func(l.derivative, l.current)>>
      [] m = "modified_secant" ->
            <<func(l.func, l.current),
              func(l.func, FAdd(l.current, FMul(l.delta, l.current)))>>

DenominatorOf(m, l) ==
    IF m = "newton_raphson" THEN DenominatorCalls(m, l)[2].val
    ELSE FSub(DenominatorCalls(m, l)[2].val, DenominatorCalls(m, l)[1].val)

ZeroDenominator(m, l) ==
    /\ DenominatorCalls(m, l)[1].ok
    /\ DenominatorCalls(m, l)[2].ok
    /\ FEq(DenominatorOf(m, l), 0)

\* C7: secant, newton_raphson and modified_secant test their denominator in
\* every iteration: when it is zero at iteration k the call aborts with the
\* method's ValueError, no record is appended for iteration k, no MethodResult
\* is returned, and no division by zero is ever executed.
C7_ZeroDenominator ==
    [][(method \in DenominatorMethods) =>
          (/\ outcome'.exc.type # "ZeroDivisionError"
           /\ (pc = "loop" /\ iteration < loc.max_iter /\ ZeroDenominator(method, loc)) =>
                 (/\ outcome' = Raised(ValueError(ZeroMessage(method)))
                  /\ iterations' = iterations
                  /\ pc' = "done"))]_vars

C7_Witness ==
    /\ method = "secant"
    /\ outcome = Raised(ValueError(ZeroMessage(method)))
    /\ iteration >= 2
    /\ Len(iterations) = iteration - 1
    /\ ZeroDenominator(method, loc)

\* C8: a solve returns at the first iteration whose record satisfies the
\* method's stopping predicate: no record but the last satisfies it, and if
\* iterations_used < max_iter the last record satisfies it.
C8_FirstStop ==
    outcome.kind = "return" =>
        LET r == outcome.result
        IN /\ \A i \in 1 .. Len(r.iterations) - 1 :
                 ~StopAt(method, r.iterations[i], args.tolerance)
           /\ r.iterations_used < args.max_iterations =>
                 StopAt(method, Last(r.iterations), args.tolerance)

C8_Witness ==
    /\ outcome.kind = "return"
    /\ outcome.result.iterations_used >= 2
    /\ outcome.result.iterations_used < args.max_iterations
    /\ StopAt(method, Last(outcome.result.iterations), args.tolerance)
    /\ ~FLt(Last(outcome.result.iterations).error, args.tolerance)

\* C9: in bisection and regula_falsi the bracket replacement keeps
\* f(a) * f(b) < 0 at the start of every iteration, with the stored fa and fb
\* equal to f(a) and f(b), for any tol (tol <= 0 included).
C9_BracketInvariant ==
    (ValidBracket /\ pc = "loop" /\ iteration < loc.max_iter) =>
        /\ FLt(FMul(loc.fa, loc.fb), 0)
        /\ func(loc.func, loc.a) = Ok(loc.fa)
        /\ func(loc.func, loc.b) = Ok(loc.fb)

\* the estimate of modified_secant was 0 when an iteration would start from it
SteppedFromZero ==
    \/ args.x0 = 0
    \/ \E i \in 1 .. Len(iterations) :
          /\ iterations[i].xn = 0
          /\ ~StopAt(method, iterations[i], args.tolerance)

=============================================================================
